---- MODULE Spec2Model ----
(***************************************************************************)
(* Anonymous sealed-bid auction: the RSA ring signature, the chunked RSA   *)
(* cipher and the SHA256 commitment of src/src/utils/crypto.py, the Bidder *)
(* bundle of src/src/bidder.py and the Auctioneer of src/src/auctioneer.py.*)
(*                                                                         *)
(* Widths are scaled down so that the arithmetic stays finite: one byte    *)
(* has ByteValues values instead of 256, a SHA256 digest is HashLen bytes  *)
(* instead of 32, an RSA modulus is sig_size bytes instead of 256, and a   *)
(* plaintext chunk is block_size bytes instead of 214.  Every relation     *)
(* between the widths the code relies on is kept: a digest (and a random   *)
(* draw of randint(0, 2**256 - 1)) is smaller than every modulus, and a    *)
(* modulus fits sig_size bytes.                                            *)
(***************************************************************************)
EXTENDS Integers, Sequences, FiniteSets, TLC

VARIABLES
    ring,           \* CryptoTest.ring: the list of keys given to sign / verify
    s,              \* CryptoTest.s: the signer's index in ring (0-based)
    msg,            \* the message of the test
    signature,      \* the bytes sign returned (<<>> before sign ran)
    valid,          \* how the test ended: "none" before, then the verdict of verify
                    \* ("True" / "False") or the exception sign or verify raised
    participants,   \* Bidder objects: address |-> their fields
    bidders,        \* Auctioneer.bidders: the tally, in insertion order
    winning_com,    \* Auctioneer.winning_com (None before the tally)
    winning_bidder, \* Auctioneer.winning_bidder (None before identity opening)
    last,           \* the last call made, on the auctioneer or by a test, and what it returned
    driver          \* Auction.proof_of_concept: where the driver of the round stands

vars == <<ring, s, msg, signature, valid, participants, bidders, winning_com,
          winning_bidder, last, driver>>

testVars == <<ring, s, msg, signature, valid>>
auctionVars == <<participants, bidders, winning_com, winning_bidder, last, driver>>

-----------------------------------------------------------------------------
(* Scaled widths and bounds *)

ByteValues == 8      \* values of one byte (256 in the code)
HashLen == 1         \* bytes of a sha256 digest (32 in the code)
sig_size == 2        \* bytes of an RSA modulus: int(2048 / 8) in the code
block_size == 1      \* bytes of one plaintext chunk (214 in the code)

MaxRing == 3         \* largest ring the signature test draws
MaxDraw == 1         \* the random draws explored are 0..MaxDraw and RandMax

None == <<-1>>       \* Python's None, where a byte string is expected

Byte == 0..(ByteValues - 1)

RECURSIVE Pow(_, _)
Pow(b, k) == IF k = 0 THEN 1 ELSE b * Pow(b, k - 1)

\* randint(0, 2**256 - 1): the largest value of a digest read as an integer
RandMax == Pow(ByteValues, HashLen) - 1

Min(a, b) == IF a < b THEN a ELSE b

-----------------------------------------------------------------------------
(* Integers and bytes *)

byteorder == "little"

RECURSIVE Xor(_, _)
Xor(a, b) ==
    IF a = 0 THEN b
    ELSE IF b = 0 THEN a
    ELSE ((a + b) % 2) + 2 * Xor(a \div 2, b \div 2)

Reverse(q) == [i \in 1..Len(q) |-> q[Len(q) + 1 - i]]

\* bytes written least significant first, in the order byteorder names
ordered(le) == IF byteorder = "little" THEN le ELSE Reverse(le)

\* x.to_bytes(len, byteorder); the code only calls it on values that fit
to_bytes(x, len) == ordered([i \in 1..len |-> (x \div Pow(ByteValues, i - 1)) % ByteValues])

RECURSIVE le_value(_)
le_value(q) == IF q = <<>> THEN 0 ELSE Head(q) + ByteValues * le_value(Tail(q))

\* int.from_bytes(q, byteorder)
from_bytes(q) == le_value(ordered(q))

\* [q[i: i + size] for i in range(0, len(q), size)]: the last chunk may be shorter
chunks(q, size) ==
    [i \in 1..((Len(q) + size - 1) \div size) |->
        SubSeq(q, (i - 1) * size + 1, Min(i * size, Len(q)))]

\* qs[lo] + ... + qs[hi], lo <= hi
RECURSIVE join_range(_, _, _)
join_range(qs, lo, hi) ==
    IF lo = hi THEN qs[lo]
    ELSE join_range(qs, lo, (lo + hi) \div 2) \o join_range(qs, (lo + hi) \div 2 + 1, hi)

\* reduce(bytes.__add__, list) on a non-empty list
join(qs) == join_range(qs, 1, Len(qs))

-----------------------------------------------------------------------------
(* SHA256, stood for by a small mixing function of all the bytes hashed *)

\* the contribution of the bytes q[lo..hi], each weighted by its position
RECURSIVE mix(_, _, _)
mix(q, lo, hi) ==
    IF lo > hi THEN 0
    ELSE IF lo = hi THEN (q[lo] + 1) * (1 + ((lo * lo + lo) % 11))
    ELSE mix(q, lo, (lo + hi) \div 2) + mix(q, (lo + hi) \div 2 + 1, hi)

sha256(q) ==
    to_bytes(((3 + 7 * Len(q) + mix(q, 1, Len(q))) % 13) % Pow(ByteValues, HashLen), HashLen)

-----------------------------------------------------------------------------
(* RSA keys.  d = 0 stands for a key object that holds no private exponent. *)

RsaKey(n, e, d) == [n |-> n, e |-> e, d |-> d]

\* Python's None, where a key is expected
NoKey == RsaKey(0, 0, 0)

publickey(key) == [key EXCEPT !.d = 0]
has_private(key) == key.d # 0

\* RSA.generate for each participant: n = p * q, e * d = 1 mod lcm(p - 1, q - 1)
KeyOf ==
    [auctioneer |-> RsaKey(55, 3, 27),
     b1 |-> RsaKey(33, 3, 7),
     b2 |-> RsaKey(51, 3, 11),
     b3 |-> RsaKey(15, 3, 3)]

RECURSIVE RSA_mult(_, _, _)
\* pow(x, e, n)
RSA_mult(x, e, n) ==
    IF e = 0 THEN 1 % n
    ELSE IF e % 2 = 0 THEN (RSA_mult(x, e \div 2, n) * RSA_mult(x, e \div 2, n)) % n
    ELSE (x * RSA_mult(x, e - 1, n)) % n

\* sha256(msg + k).digest() read as an integer
E_k(m, k) == from_bytes(sha256(m \o k))

-----------------------------------------------------------------------------
(* The ring signature: crypto.py sign and verify *)

At(q, i) == q[i + 1]     \* q[i] with Python's 0-based index

\* one pass of sign's loop body for i in range(lo, hi), x[i] being the draw
\* signature[i] = randint(0, 2**256 - 1)
RECURSIVE sign_loop(_, _, _, _, _, _)
sign_loop(keys, x, k, v, lo, hi) ==
    IF lo >= hi THEN v
    ELSE LET y == RSA_mult(x[lo], At(keys, lo).e, At(keys, lo).n)
         IN sign_loop(keys, x, k, E_k(to_bytes(Xor(v, y), sig_size), k), lo + 1, hi)

\* sig = [glue] + signature, each integer written on sig_size bytes
sign_bytes(keys, si, x, glue, x_s) ==
    join([i \in 1..(Len(keys) + 1) |->
            to_bytes(IF i = 1 THEN glue ELSE IF i - 2 = si THEN x_s ELSE x[i - 2], sig_size)])

\* sign with the glue value taken at the end of the walk instead of at the wrap
sign_glue_at_end(keys, si, k, v_prime, x, glue) ==
    sign_bytes(keys, si, x, sign_loop(keys, x, k, glue, 0, si),
               RSA_mult(Xor(v_prime, sign_loop(keys, x, k, glue, 0, si)),
                        At(keys, si).d, At(keys, si).n))

\* sign from glue = v on: the loop over range(s), y_s = v_prime ^ v, and
\* signature[s] = y_s^d mod n
sign_close(keys, si, k, v_prime, x, glue) ==
    sign_bytes(keys, si, x, glue,
               RSA_mult(Xor(v_prime, sign_loop(keys, x, k, glue, 0, si)),
                        At(keys, si).d, At(keys, si).n))

\* sign with the first loop over range(s, len(keys)): index s is walked too
sign_keyed_from_s(keys, si, k, v_prime, x) ==
    sign_close(keys, si, k, v_prime, x,
               sign_loop(keys, x, k, E_k(to_bytes(v_prime, sig_size), k), si, Len(keys)))

\* sign from k on: v = E_k(v_prime), then the loop over range(s + 1, len(keys))
sign_keyed(keys, si, k, v_prime, x) ==
    sign_close(keys, si, k, v_prime, x,
               sign_loop(keys, x, k, E_k(to_bytes(v_prime, sig_size), k), si + 1, Len(keys)))

\* sign never raises
sign_raises_never(keys, si) == FALSE

\* sign(keys, s, msg) raises AttributeError: keys[s].d of a key with no private
\* exponent
sign_raises(keys, si) == ~has_private(At(keys, si))

\* sign(keys, s, msg) with its random draws given: v_prime and x[i], i # s
sign(keys, si, m, v_prime, x) == sign_keyed(keys, si, sha256(m), v_prime, x)

\* list(map(lambda x: int.from_bytes(x, byteorder), sig))
ints(sig) == [i \in 1..Len(sig) |-> from_bytes(sig[i])]

\* the integers verify reads from the signature bytes
sig_fields(sigbytes) == ints(chunks(sigbytes, sig_size))

\* signature[index + 1] does not exist for some index in range(len(keys))
verify_raises(sigbytes, keys) == Len(sig_fields(sigbytes)) < Len(keys) + 1

\* the walk of verify over range(len(keys) - 1): the last key is left out
RECURSIVE verify_walk_short(_, _, _, _, _)
verify_walk_short(keys, f, k, v, index) ==
    IF index >= Len(keys) - 1 THEN v
    ELSE LET y == RSA_mult(At(f, index + 1), At(keys, index).e, At(keys, index).n)
         IN verify_walk_short(keys, f, k, E_k(to_bytes(Xor(v, y), sig_size), k), index + 1)

RECURSIVE verify_walk(_, _, _, _, _)
\* reduce(lambda v, index: E_k((v ^ y[index]).to_bytes(...), k), range(len(keys)), v)
verify_walk(keys, f, k, v, index) ==
    IF index >= Len(keys) THEN v
    ELSE LET y == RSA_mult(At(f, index + 1), At(keys, index).e, At(keys, index).n)
         IN verify_walk(keys, f, k, E_k(to_bytes(Xor(v, y), sig_size), k), index + 1)

\* r == signature[0], r being the walk from signature[0] over all the keys
verify_fields(f, k, keys) == verify_walk(keys, f, k, f[1], 0) = f[1]

\* verify(signature, msg, keys), when it does not raise
verify(sigbytes, m, keys) == verify_fields(sig_fields(sigbytes), sha256(m), keys)

-----------------------------------------------------------------------------
(* The SHA256 commitment *)

\* commit(msg, r) raises ValueError: the only length check of the code
commit_raises(r) == Len(r) > HashLen

\* commit(msg, r) = sha256(msg + r).digest()
commit(m, r) == sha256(m \o r)

\* commit_verify(msg, r, c): recomputes the commitment and compares
commit_verify(m, r, c) == commit(m, r) = c

-----------------------------------------------------------------------------
(* The chunked RSA cipher.  PKCS1_OAEP is stood for by RSA on a padded chunk: *)
(* the padding carries the chunk's length and one random bit, and decryption *)
(* checks it.                                                                *)

\* PKCS1_OAEP.new(key).encrypt(block): block is at most block_size bytes
oaep_pad(block, seed) ==
    IF block = <<>> THEN 3 * ByteValues + (seed % 2)
    ELSE (1 + (seed % 2)) * ByteValues + block[1]

padding_ok(p) == p >= ByteValues /\ p < 3 * ByteValues + 2

oaep_unpad(p) == IF p >= 3 * ByteValues THEN <<>> ELSE <<p % ByteValues>>

\* __encrypt(plain, key)
encrypt_block(plain, key, seed) ==
    to_bytes(RSA_mult(oaep_pad(plain, seed), key.e, key.n), sig_size)

\* encrypt(plain, key) raises TypeError: reduce() of an empty list of blocks
encrypt_raises(plain) == plain = <<>>

\* reduce(bytes.__add__, map(lambda block: __encrypt(block, key), blocks))
encrypt_blocks(blocks, key, seeds) ==
    join([i \in 1..Len(blocks) |-> encrypt_block(blocks[i], key, seeds[i])])

\* encrypt(plain, key), seeds[i] being the randomness of the i-th block
encrypt(plain, key, seeds) == encrypt_blocks(chunks(plain, block_size), key, seeds)

\* __decrypt(cipher, key) raises ValueError: wrong length, or the padding check
decrypt_block_raises(cipher, key) ==
    \/ Len(cipher) # sig_size
    \/ from_bytes(cipher) >= key.n
    \/ ~padding_ok(RSA_mult(from_bytes(cipher), key.d, key.n))

\* __decrypt(cipher, key)
decrypt_block(cipher, key) == oaep_unpad(RSA_mult(from_bytes(cipher), key.d, key.n))

\* only the first block is looked at
decrypt_blocks_raise_first(blocks, key) ==
    \/ blocks = <<>>
    \/ decrypt_block_raises(blocks[1], key)

\* one block raises, or reduce() has no block at all
decrypt_blocks_raise(blocks, key) ==
    \/ blocks = <<>>
    \/ \E i \in 1..Len(blocks) : decrypt_block_raises(blocks[i], key)

\* decrypt(cipher, key) raises
decrypt_raises(cipher, key) == decrypt_blocks_raise(chunks(cipher, sig_size), key)

\* reduce(bytes.__add__, map(lambda block: __decrypt(block, key), blocks))
decrypt_blocks(blocks, key) ==
    join([i \in 1..Len(blocks) |-> decrypt_block(blocks[i], key)])

\* decrypt(cipher, key), when it does not raise
decrypt(cipher, key) == decrypt_blocks(chunks(cipher, sig_size), key)

-----------------------------------------------------------------------------
(* Keys as bytes, and the fixed-width fields of the bundle *)

KeyLen == sig_size + 1

\* key.exportKey(): the public modulus and exponent
exportKey(key) == to_bytes(key.n, sig_size) \o to_bytes(key.e, 1)

\* RSA.importKey(bytes): a key object without private exponent
importKey(q) == RsaKey(from_bytes(SubSeq(q, 1, sig_size)), from_bytes(SubSeq(q, sig_size + 1, KeyLen)), 0)

\* concatenate(*fields): the fields one after the other
concatenate(fields) == join(fields)

\* the fields of q, of the given widths, in order
RECURSIVE split(_, _)
split(q, widths) ==
    IF widths = <<>> THEN <<>>
    ELSE <<SubSeq(q, 1, Head(widths))>> \o split(SubSeq(q, Head(widths) + 1, Len(q)), Tail(widths))

\* parse(sig) = (sigma, c1, c2): the two commitments are the last 2 * HashLen bytes
parse_sig(q) == split(q, <<Len(q) - 2 * HashLen, HashLen, HashLen>>)

\* parse(tau) = (C, d): the decommitment is the last HashLen bytes
parse_tau(q) == split(q, <<Len(q) - HashLen, HashLen>>)

\* parse(m1) = (c, sigma, Sigma, bid, d): the two signatures have the same width
parse_m1(q) ==
    LET w == (Len(q) - 3 * HashLen) \div 2
    IN split(q, <<HashLen, w, w, HashLen, HashLen>>)

\* parse(m2) = (c, pub_key_winner, pub_key_auctioneer, sig, Sigma, delta): delta
\* is a signature over a ring of two keys
parse_m2(q) ==
    LET w == (Len(q) - HashLen - 2 * KeyLen - 3 * sig_size) \div 2
    IN split(q, <<HashLen, KeyLen, KeyLen, w, w, 3 * sig_size>>)


-----------------------------------------------------------------------------
(* Bidder: src/src/bidder.py *)

\* the bidders of the auction, in the order the driver creates them
names == <<"b1", "b2">>

Range(q) == {q[i] : i \in DOMAIN q}

Bidders == Range(names)

MaxBid == 1          \* bid values explored: 0..MaxBid
MaxSeed == 0         \* states of the random generator explored: 0..MaxSeed

\* the k-th value the random generator returns from state seed, in 0..RandMax
Draw(seed, k) == (((seed + 2) * (k + 3) * 11 + k * k * 3 + seed) % 19) % (RandMax + 1)

\* pub_keys of the round: the bidders' public keys, then the auctioneer's
pub_keys == <<publickey(KeyOf["b1"]), publickey(KeyOf["b2"]), publickey(KeyOf["auctioneer"])>>

\* the draws one bidder takes: make_ring, then bid() on the largest ring
DrawsPerBidder == 2 * Len(pub_keys) + 10 * Len(pub_keys) + 29

\* the bidders run one after the other on one generator: the number of the
\* first draw of bidder b
first_draw(b) == ((CHOOSE i \in DOMAIN names : names[i] = b) - 1) * DrawsPerBidder

\* 0-based q.index(x)
index(q, x) == (CHOOSE i \in DOMAIN q : q[i] = x /\ \A j \in 1..(i - 1) : q[j] # x) - 1

\* random.sample(pool, k) from draw number d on: the j-th element of the pool is
\* taken, and the last element of the pool moves to its place
RECURSIVE sample(_, _, _, _)
sample(pool, k, seed, d) ==
    IF k = 0 THEN <<>>
    ELSE LET n == Len(pool)
             j == (Draw(seed, d) % n) + 1
         IN <<pool[j]>> \o sample(SubSeq([pool EXCEPT ![j] = pool[n]], 1, n - 1), k - 1, seed, d + 1)

\* random.shuffle(q) from draw number d on: for i = len(q) - 1 down to 1, q[i]
\* and q[j] are swapped, j drawn in 0..i
RECURSIVE shuffle(_, _, _, _)
shuffle(q, i, seed, d) ==
    IF i < 1 THEN q
    ELSE LET j == Draw(seed, d) % (i + 1)
         IN shuffle([q EXCEPT ![i + 1] = q[j + 1], ![j + 1] = q[i + 1]], i - 1, seed, d + 1)

\* only the bidder's own key is left out
other_keys_but_own(b, keys) ==
    LET keep(key) == key # publickey(KeyOf[b])
    IN SelectSeq(keys, keep)

\* the keys of the round that are neither the bidder's nor the auctioneer's
other_keys(b, keys) ==
    LET keep(key) == key # publickey(KeyOf[b]) /\ key # publickey(KeyOf["auctioneer"])
    IN SelectSeq(keys, keep)

\* self.ring after extend: k = randint(0, len(keys) - 2) of the other keys
extended(b, keys, seed, d, k) ==
    <<publickey(KeyOf[b]), publickey(KeyOf["auctioneer"])>> \o sample(other_keys(b, keys), k, seed, d + 1)

\* self.ring after shuffle
shuffled(b, keys, seed, d, k) == shuffle(extended(b, keys, seed, d, k), k + 1, seed, d + 1 + k)

\* self.ring[self.__s] = self._RSA_key
signer_placed(b, q, si) == [ring |-> [q EXCEPT ![si + 1] = KeyOf[b]], s |-> si]

\* self.__s = self.ring.index(self.public_key)
located(b, q) == signer_placed(b, q, index(q, publickey(KeyOf[b])))

\* make_ring(keys) of bidder b from draw number d on: the ring and s it leaves
make_ring(b, keys, seed, d) ==
    located(b, shuffled(b, keys, seed, d, Draw(seed, d) % (Len(keys) - 1)))

\* the draws of one sign call on a ring of n keys with signer si: v_prime first
\* (draw number k), then x[i] for i = si + 1..n - 1, then for i = 0..si - 1
sign_draws(seed, k, n, si) ==
    [v_prime |-> Draw(seed, k),
     x |-> [i \in 0..(n - 1) |->
              IF i > si THEN Draw(seed, k + i - si)
              ELSE IF i < si THEN Draw(seed, k + n - si + i)
              ELSE 0]]

\* self.__sign(msg) with the generator at draw number k
bidder_sign(keys, si, m, seed, k) ==
    LET dr == sign_draws(seed, k, Len(keys), si)
    IN sign(keys, si, m, dr.v_prime, dr.x)

\* self.__encrypt(plain) with the generator at draw number k
bidder_encrypt(plain, seed, k) ==
    encrypt(plain, publickey(KeyOf["auctioneer"]), [i \in 1..Len(plain) |-> Draw(seed, k + i)])

\* the element of a set of one element
The(S) == CHOOSE x \in S : TRUE

\* statement i of bid() on the bidder p, k being the number of its first draw.
\* Draw k is d, then sigma, Sigma, d1, delta and d2 take theirs; the cipher
\* blocks take their random bit after those.
bid_step(p, k, i) ==
    LET n == Len(p.ring)
        x == to_bytes(p.bid_value, HashLen)
        auctioneer_pub_key == publickey(KeyOf["auctioneer"])
    IN CASE i = 1 -> [p EXCEPT !.d = to_bytes(Draw(p.seed, k), HashLen),
                               !.c = commit(x, to_bytes(Draw(p.seed, k), HashLen))]
         [] i = 2 -> [p EXCEPT !.sigma = bidder_sign(p.ring, p.s, p.c, p.seed, k + 1)]
         [] i = 3 -> [p EXCEPT !.Sigma = bidder_sign(p.ring, p.s, p.c \o p.sigma, p.seed, k + 1 + n)]
         [] i = 4 -> [p EXCEPT !.C1 = bidder_encrypt(concatenate(<<p.c, p.sigma, p.Sigma, x, p.d>>),
                                                     p.seed, k + 2 * n + 5)]
         [] i = 5 -> [p EXCEPT !.d1 = to_bytes(Draw(p.seed, k + 1 + 2 * n), HashLen),
                               !.c1 = commit(p.C1, to_bytes(Draw(p.seed, k + 1 + 2 * n), HashLen))]
         [] i = 6 -> [p EXCEPT !.delta = bidder_sign(<<KeyOf[p.name], auctioneer_pub_key>>, 0,
                                                     p.c \o p.sigma \o p.Sigma, p.seed, k + 2 + 2 * n)]
         [] i = 7 -> [p EXCEPT !.C2 = bidder_encrypt(
                                         concatenate(<<p.c, exportKey(publickey(KeyOf[p.name])),
                                                       exportKey(auctioneer_pub_key),
                                                       p.sigma, p.Sigma, p.delta>>),
                                         p.seed, k + 6 * n + 12)]
         [] i = 8 -> [p EXCEPT !.d2 = to_bytes(Draw(p.seed, k + 4 + 2 * n), HashLen),
                               !.c2 = commit(p.C2, to_bytes(Draw(p.seed, k + 4 + 2 * n), HashLen))]
         [] i = 9 -> [p EXCEPT !.sig = concatenate(<<p.sigma, p.c1, p.c2>>),
                               !.tau_1 = concatenate(<<p.C1, p.d1>>),
                               !.tau_2 = concatenate(<<p.C2, p.d2>>)]

\* the bidder p after the first i statements of bid()
RECURSIVE bid_steps(_, _, _)
bid_steps(p, k, i) ==
    IF i = 0 THEN p
    ELSE The({bid_step(q, k, i) : q \in {bid_steps(p, k, i - 1)}})

\* bid() of the bidder p from draw number k on: the bidder with the fields it sets
bid(p, k) == bid_steps(p, k, 9)

\* key.publickey() for key in ring: the ring as export_ring publishes it
export_ring(keys) == [i \in DOMAIN keys |-> publickey(keys[i])]

\* Bidder.__init__(name, bid), the generator being in state seed
new_bidder(b, bid_value, seed) ==
    [name |-> b, bid_value |-> bid_value, seed |-> seed, ring |-> <<>>, s |-> 0,
     c |-> None, d |-> None, sigma |-> None, Sigma |-> None,
     C1 |-> None, c1 |-> None, d1 |-> None, delta |-> None,
     C2 |-> None, c2 |-> None, d2 |-> None,
     sig |-> None, tau_1 |-> None, tau_2 |-> None]

\* the bidder p with the ring and s that make_ring made
with_ring(p, made) == [p EXCEPT !.ring = made.ring, !.s = made.s]

\* the bidder p after make_ring(pub_keys)
after_make_ring(p) == with_ring(p, make_ring(p.name, pub_keys, p.seed, first_draw(p.name)))

\* the bidder p after bid()
after_bid(p) == bid(p, first_draw(p.name) + 2 * Len(pub_keys))

-----------------------------------------------------------------------------
(* Auctioneer: src/src/auctioneer.py *)

\* self._RSA_key of the auctioneer
auctioneer_key == KeyOf["auctioneer"]

\* self.bidders[address] = entry: a new key goes last, a known key keeps its place
put(tally, address, entry) ==
    IF \E i \in DOMAIN tally : tally[i].address = address
    THEN [i \in DOMAIN tally |-> IF tally[i].address = address THEN entry ELSE tally[i]]
    ELSE Append(tally, entry)

\* what bid_opening returns without storing: False, or the exception e
opening_rejected == [status |-> "False", bid |-> 0, com |-> None, decom |-> None]
opening_raised(e) == [status |-> e, bid |-> 0, com |-> None, decom |-> None]

\* the checks on m1 without the check of Sigma
checks_on_m1_no_Sigma(r, c, sigma, m1) ==
    LET c_tilde == m1[1]
        sigma_tilde == m1[2]
        Sigma == m1[3]
        bid_bytes == m1[4]
        d == m1[5]
    IN IF ~(c_tilde = c /\ sigma_tilde = sigma) THEN opening_rejected
       ELSE IF verify_raises(Sigma, r) THEN opening_raised("IndexError")
       ELSE IF ~commit_verify(bid_bytes, d, c) THEN opening_rejected
       ELSE [status |-> "True", bid |-> from_bytes(bid_bytes), com |-> c, decom |-> d]

\* bid_opening from c_tilde, sigma_tilde, Sigma, bid, d = parse(m1) on, up to
\* the store
checks_on_m1(r, c, sigma, m1) ==
    LET c_tilde == m1[1]
        sigma_tilde == m1[2]
        Sigma == m1[3]
        bid_bytes == m1[4]
        d == m1[5]
    IN IF ~(c_tilde = c /\ sigma_tilde = sigma) THEN opening_rejected
       ELSE IF verify_raises(Sigma, r) THEN opening_raised("IndexError")
       ELSE IF ~verify(Sigma, c \o sigma, r) THEN opening_rejected
       ELSE IF ~commit_verify(bid_bytes, d, c) THEN opening_rejected
       ELSE [status |-> "True", bid |-> from_bytes(bid_bytes), com |-> c, decom |-> d]

\* the checks on the parsed fields without the check of c1
checks_on_fields_no_c1(r, c, sig3, tau) ==
    LET sigma == sig3[1]
        c1 == sig3[2]
        C1 == tau[1]
        d1 == tau[2]
    IN IF verify_raises(sigma, r) THEN opening_raised("IndexError")
       ELSE IF ~verify(sigma, c, r) THEN opening_rejected
       ELSE IF decrypt_raises(C1, auctioneer_key) THEN opening_raised("ValueError")
       ELSE checks_on_m1(r, c, sigma, parse_m1(decrypt(C1, auctioneer_key)))

\* bid_opening on sig3 = parse(sig) and tau = parse(tau_1): the checks of sigma
\* and of c1, then the decryption of C1
checks_on_fields(r, c, sig3, tau) ==
    LET sigma == sig3[1]
        c1 == sig3[2]
        C1 == tau[1]
        d1 == tau[2]
    IN IF verify_raises(sigma, r) THEN opening_raised("IndexError")
       ELSE IF ~verify(sigma, c, r) THEN opening_rejected
       ELSE IF ~commit_verify(C1, d1, c1) THEN opening_rejected
       ELSE IF decrypt_raises(C1, auctioneer_key) THEN opening_raised("ValueError")
       ELSE checks_on_m1(r, c, sigma, parse_m1(decrypt(C1, auctioneer_key)))

\* the body of bid_opening(address, ring, c, sig, tau_1) up to the store: the
\* status it returns (or the exception it raises) and, when every check passes,
\* the entry it stores
bid_opening_checks(r, c, sig, tau_1) == checks_on_fields(r, c, parse_sig(sig), parse_tau(tau_1))

\* what identity_opening returns without storing
identity_rejected == [status |-> "False", pub_key_winner |-> NoKey]
identity_raised(e) == [status |-> e, pub_key_winner |-> NoKey]

\* the checks on m2 without the comparison of c with winning_com
checks_on_m2_any_com(com, m2) ==
    LET c == m2[1]
        pub_key_winner == importKey(m2[2])
        pub_key_auctioneer == importKey(m2[3])
        sig_tilde == m2[4]
        Sigma == m2[5]
        delta == m2[6]
    IN IF verify_raises(delta, <<pub_key_winner, pub_key_auctioneer>>)
            THEN identity_raised("IndexError")
       ELSE IF ~verify(delta, c \o sig_tilde \o Sigma, <<pub_key_winner, pub_key_auctioneer>>)
            THEN identity_rejected
       ELSE [status |-> "True", pub_key_winner |-> pub_key_winner]

\* identity_opening from c, pub_key_winner, pub_key_auctioneer, sig, Sigma,
\* delta = parse(m2) on, winning_com being com
checks_on_m2(com, m2) ==
    LET c == m2[1]
        pub_key_winner == importKey(m2[2])
        pub_key_auctioneer == importKey(m2[3])
        sig_tilde == m2[4]
        Sigma == m2[5]
        delta == m2[6]
    IN IF c # com THEN identity_rejected
       ELSE IF verify_raises(delta, <<pub_key_winner, pub_key_auctioneer>>)
            THEN identity_raised("IndexError")
       ELSE IF ~verify(delta, c \o sig_tilde \o Sigma, <<pub_key_winner, pub_key_auctioneer>>)
            THEN identity_rejected
       ELSE [status |-> "True", pub_key_winner |-> pub_key_winner]

\* identity_opening on sig3 = parse(sig) and tau = parse(tau_2): the check of
\* c2, then the decryption of C2
checks_on_identity(com, sig3, tau) ==
    LET c2 == sig3[3]
        C2 == tau[1]
        d2 == tau[2]
    IN IF ~commit_verify(C2, d2, c2) THEN identity_rejected
       ELSE IF decrypt_raises(C2, auctioneer_key) THEN identity_raised("ValueError")
       ELSE checks_on_m2(com, parse_m2(decrypt(C2, auctioneer_key)))

\* the body of identity_opening(sig, tau_2) up to the store, winning_com being
\* com: the status it returns (or raises) and the key it stores when it accepts
identity_opening_checks(com, sig, tau_2) ==
    checks_on_identity(com, parse_sig(sig), parse_tau(tau_2))

\* the loop of get_winning_commitment without the re-verification
RECURSIVE winning_loop_no_reverify(_, _, _, _)
winning_loop_no_reverify(tally, i, max_bid, com) ==
    IF i > Len(tally) THEN com
    ELSE LET x == tally[i].bid
             c == tally[i].com
         IN IF x > max_bid
            THEN winning_loop_no_reverify(tally, i + 1, x, c)
            ELSE winning_loop_no_reverify(tally, i + 1, max_bid, com)

\* the loop of get_winning_commitment from entry i on: the winning_com it leaves
RECURSIVE winning_loop(_, _, _, _)
winning_loop(tally, i, max_bid, com) ==
    IF i > Len(tally) THEN com
    ELSE LET x == tally[i].bid
             c == tally[i].com
             d == tally[i].decom
         IN IF ~commit_verify(to_bytes(x, HashLen), d, c)
            THEN winning_loop(tally, i + 1, max_bid, com)
            ELSE IF x > max_bid
                 THEN winning_loop(tally, i + 1, x, c)
                 ELSE winning_loop(tally, i + 1, max_bid, com)

\* get_winning_commitment(): max_bid = 0, then the loop over self.bidders.values()
get_winning_commitment(tally, com) == winning_loop(tally, 1, 0, com)

-----------------------------------------------------------------------------
(* What the auctioneer can be called with: the fields a bidder published, a  *)
(* changed copy of them, or fields a bidder built without following bid()    *)

MaxFlip == 1         \* a changed byte is the byte XOR a mask in 1..MaxFlip

\* q with the byte at position i changed
flip(q, i, mask) == [q EXCEPT ![i] = Xor(@, mask)]

Flips(q, positions) == {flip(q, i, mask) : i \in positions, mask \in 1..MaxFlip}

\* the draws a bidder takes after all the draws of the honest run
extra_draw(b) == first_draw(b) + Len(names) * DrawsPerBidder

\* the fields bidder p sends with C1 in the place of its own: c1 = commit(C1, d1)
\* takes its place in sig
sealed_C1(p, C1) ==
    [ring |-> p.ring, c |-> p.c,
     sig |-> concatenate(<<p.sigma, commit(C1, p.d1), p.c2>>),
     tau_1 |-> concatenate(<<C1, p.d1>>)]

\* bidder p seals m1 as bid() seals its own: encrypted for the auctioneer and
\* committed to with d1
sealed_m1(p, m1) == sealed_C1(p, bidder_encrypt(m1, p.seed, extra_draw(p.name)))

\* the m1 of a bidder p that does not follow bid(): another commitment inside,
\* sigma in the place of Sigma, or another bid than the committed one
crafted_m1(p) ==
    LET x == to_bytes(p.bid_value, HashLen)
    IN {concatenate(<<flip(p.c, 1, 1), p.sigma, p.Sigma, x, p.d>>),
        concatenate(<<p.c, p.sigma, p.sigma, x, p.d>>),
        concatenate(<<p.c, p.sigma, p.Sigma, to_bytes(p.bid_value + 1, HashLen), p.d>>)}

\* the sig and tau_2 bidder p sends with C2 in the place of its own
sealed_C2(p, C2) ==
    [sig |-> concatenate(<<p.sigma, p.c1, commit(C2, p.d2)>>),
     tau_2 |-> concatenate(<<C2, p.d2>>)]

\* m2 of bidder p naming the keys of R2, with delta signed by p at index 1 of R2
forged_m2(p, R2) ==
    concatenate(<<p.c, exportKey(R2[1]), exportKey(R2[2]), p.sigma, p.Sigma,
                  bidder_sign(R2, 1, p.c \o p.sigma \o p.Sigma, p.seed, extra_draw(p.name))>>)

\* bidder p names the public key of the bidder victim and its own key in m2, and
\* signs delta over these two with its own private key: sig and tau_2
forged_identity(p, victim) ==
    sealed_C2(p, bidder_encrypt(forged_m2(p, <<publickey(KeyOf[victim]), KeyOf[p.name]>>),
                                p.seed, extra_draw(p.name) + 2))

\* what bid_opening is called with for bidder p: the fields as published; one
\* byte of sig, of tau_1 or of c changed; the ring in another order; or the
\* fields of a bidder that did not follow bid()
OpeningInputsOf(p) ==
    LET given == [ring |-> p.ring, c |-> p.c, sig |-> p.sig, tau_1 |-> p.tau_1]
    IN {given}
       \cup {[given EXCEPT !.sig = q] :
                q \in Flips(p.sig, {1, Len(p.sig) - HashLen, Len(p.sig)})}
       \cup {[given EXCEPT !.tau_1 = q] : q \in Flips(p.tau_1, {1, Len(p.tau_1)})}
       \cup {[given EXCEPT !.c = q] : q \in Flips(p.c, {1})}
       \cup {[given EXCEPT !.ring = Reverse(p.ring)]}
       \cup {sealed_m1(p, m1) : m1 \in crafted_m1(p)}
       \cup {[given EXCEPT !.sig = forged_identity(p, victim).sig] : victim \in Bidders \ {p.name}}

\* bid_opening called for bidder p with one byte of the published sig changed,
\* whichever byte it is
SigTamperedInputsOf(p) ==
    {[ring |-> p.ring, c |-> p.c, sig |-> q, tau_1 |-> p.tau_1] : q \in Flips(p.sig, DOMAIN p.sig)}

\* what identity_opening is called with for bidder p
IdentityInputsOf(p) ==
    LET given == [sig |-> p.sig, tau_2 |-> p.tau_2]
    IN {given}
       \cup {[given EXCEPT !.sig = q] : q \in Flips(p.sig, {Len(p.sig)})}
       \cup {[given EXCEPT !.tau_2 = q] : q \in Flips(p.tau_2, {1, Len(p.tau_2)})}
       \cup {forged_identity(p, victim) : victim \in Bidders \ {p.name}}

-----------------------------------------------------------------------------
(* The auctions explored.  What a bidder publishes depends only on its name, *)
(* its bid and the generator, so the calls and the auctioneer's checks on    *)
(* them are tabulated here and looked up in every state                      *)

\* every bidder after make_ring and bid()
Published ==
    {after_bid(after_make_ring(new_bidder(b, bid_value, seed))) :
        b \in Bidders, bid_value \in 0..MaxBid, seed \in 0..MaxSeed}

opening_inputs == [p \in Published |-> OpeningInputsOf(p)]

sig_tampered_inputs == [p \in Published |-> SigTamperedInputsOf(p)]

identity_inputs == [p \in Published |-> IdentityInputsOf(p)]

\* the sig and tau_2 of bidder p sealed over its C2 with one byte of the first
\* block changed: c2 = commit(C2, d2) holds, C2 is no longer what encrypt made
sealed_inputs ==
    [p \in Published |-> {sealed_C2(p, q) : q \in Flips(p.C2, 1..sig_size)}]

opening_checked ==
    [in \in UNION {opening_inputs[p] \cup sig_tampered_inputs[p] : p \in Published} |->
        bid_opening_checks(in.ring, in.c, in.sig, in.tau_1)]

identity_checked ==
    [in \in {[com |-> com, sig |-> sent.sig, tau_2 |-> sent.tau_2] :
                com \in {p.c : p \in Published} \cup {None},
                sent \in UNION {identity_inputs[p] \cup sealed_inputs[p] : p \in Published}} |->
        identity_opening_checks(in.com, in.sig, in.tau_2)]

\* the store of bid_opening done whatever the checks returned
bid_opening_store_first(tally, address, res) ==
    [status |-> res.status,
     bidders |-> put(tally, address, [address |-> address, bid |-> res.bid,
                                       com |-> res.com, decom |-> res.decom])]

\* the end of bid_opening, res being what its checks returned: the entry is
\* stored when they all passed
bid_opening_store(tally, address, res) ==
    [status |-> res.status,
     bidders |-> IF res.status = "True"
                 THEN put(tally, address, [address |-> address, bid |-> res.bid,
                                            com |-> res.com, decom |-> res.decom])
                 ELSE tally]

\* bid_opening(address, ring, c, sig, tau_1) on the tally: what it returns (or
\* the exception it raises) and the tally it leaves
bid_opening(tally, address, r, c, sig, tau_1) ==
    bid_opening_store(tally, address,
                      opening_checked[[ring |-> r, c |-> c, sig |-> sig, tau_1 |-> tau_1]])

\* the end of identity_opening, res being what its checks returned
identity_opening_store(winning, res) ==
    [status |-> res.status,
     winning_bidder |-> IF res.status = "True" THEN res.pub_key_winner ELSE winning]

\* identity_opening(sig, tau_2): what it returns (or raises) and the
\* winning_bidder it leaves
identity_opening(winning, com, sig, tau_2) ==
    identity_opening_store(winning,
                           identity_checked[[com |-> com, sig |-> sig, tau_2 |-> tau_2]])

-----------------------------------------------------------------------------
(* The signature test of tests/crypto_test.py, over every ring and signer *)

Names == {"auctioneer", "b1", "b2", "b3"}

\* the values a randint(0, 2**256 - 1) draw is explored with
Draws == (0..Min(MaxDraw, RandMax)) \cup {RandMax}

Messages == {<<>>, <<1>>, <<2, 5>>}

\* lists of distinct participants, 2..MaxRing long
RingNames ==
    {q \in UNION {[1..n -> Names] : n \in 2..Min(MaxRing, Cardinality(Names))} :
        \A i, j \in DOMAIN q : i # j => q[i] # q[j]}

\* ring.append(key.publickey() if index != s else key)
TestRing(q, si) == [i \in DOMAIN q |-> IF i - 1 = si THEN KeyOf[q[i]] ELSE publickey(KeyOf[q[i]])]

\* proof_of_concept is not running: the methods are called directly
NoDriver == [pc |-> "none"]

NoAuction ==
    /\ participants = <<>>
    /\ bidders = <<>>
    /\ winning_com = None
    /\ winning_bidder = NoKey
    /\ last = [op |-> "none"]
    /\ driver = NoDriver

InitTest ==
    /\ \E q \in RingNames : \E si \in 0..(Len(q) - 1) :
          /\ ring = TestRing(q, si)
          /\ s = si
    /\ msg \in Messages
    /\ signature = <<>>
    /\ valid = "none"
    /\ NoAuction

\* signature = sign(CryptoTest.ring, CryptoTest.s, msg)
TestSign ==
    /\ signature = <<>>
    /\ valid = "none"
    /\ IF sign_raises(ring, s)
       THEN signature' = <<>> /\ valid' = "AttributeError"
       ELSE /\ \E v_prime \in Draws : \E x \in [0..(Len(ring) - 1) -> Draws] :
                  /\ x[s] = 0
                  /\ signature' = sign(ring, s, msg, v_prime, x)
            /\ valid' = valid
    /\ UNCHANGED <<ring, s, msg, auctionVars>>

\* verify(signature, msg, CryptoTest.ring): the verdict, or the IndexError of
\* signature[index + 1]
TestVerify ==
    /\ signature # <<>>
    /\ valid = "none"
    /\ valid' = IF verify_raises(signature, ring) THEN "IndexError"
                ELSE IF verify(signature, msg, ring) THEN "True" ELSE "False"
    /\ UNCHANGED <<ring, s, msg, signature, auctionVars>>

NextTest == TestSign \/ TestVerify

SpecTest == InitTest /\ [][NextTest]_vars

-----------------------------------------------------------------------------
(* The tests with another ring or another signature: what verify is given    *)
(* between sign and verify is changed once                                   *)

MaxAppend == 1       \* bytes appended to a signature: 1..MaxAppend

\* (int.from_bytes(signature, byteorder) + 1).to_bytes(len(signature) + 1, byteorder)
plus_one(sig) == to_bytes(from_bytes(sig) + 1, Len(sig) + 1)

\* the signatures verify is given in place of sig, each with its kind: one bit
\* of one byte flipped, the test's plus one, bytes appended, fields dropped
altered(sig) ==
    {[kind |-> "bit", signature |-> [sig EXCEPT ![i] = Xor(@, Pow(2, j))]] :
        i \in DOMAIN sig, j \in {j \in 0..ByteValues : Pow(2, j) < ByteValues}}
    \cup {[kind |-> "plus_one", signature |-> plus_one(sig)]}
    \cup {[kind |-> "appended", signature |-> sig \o q] :
             q \in UNION {[1..n -> Byte] : n \in 1..MaxAppend}}
    \cup {[kind |-> "fields_dropped", signature |-> SubSeq(sig, 1, n * sig_size)] :
             n \in 1..(Len(sig) \div sig_size - 1)}

\* CryptoTest.ring[i] = CryptoTest.key, for every index i and every other key
TestReplaceKey ==
    /\ signature # <<>>
    /\ valid = "none"
    /\ last.op = "none"
    /\ \E i \in DOMAIN ring : \E a \in Names :
          /\ \A j \in DOMAIN ring : publickey(ring[j]) # publickey(KeyOf[a])
          /\ ring' = [ring EXCEPT ![i] = KeyOf[a]]
          /\ last' = [op |-> "replace_key", index |-> i - 1, signed_with |-> ring]
    /\ UNCHANGED <<s, msg, signature, valid, participants, bidders, winning_com,
                   winning_bidder, driver>>

\* signature = ... between sign and verify
TestAlterSignature ==
    /\ signature # <<>>
    /\ valid = "none"
    /\ last.op = "none"
    /\ \E alt \in altered(signature) :
          /\ signature' = alt.signature
          /\ last' = [op |-> "alter", kind |-> alt.kind, signed |-> signature]
    /\ UNCHANGED <<ring, s, msg, valid, participants, bidders, winning_com,
                   winning_bidder, driver>>

\* test_invalid_signature_ring, over every index and every other key
NextRingReplaced == TestSign \/ TestReplaceKey \/ TestVerify

SpecRingReplaced == InitTest /\ [][NextRingReplaced]_vars

\* test_invalid_signature_value, over the signatures of altered
NextTestAltered == TestSign \/ TestAlterSignature \/ TestVerify

SpecTestAltered == InitTest /\ [][NextTestAltered]_vars

\* sign and verify on rings whose entries are key pairs or public keys in every
\* combination of the signer's entry and the others
InitSign ==
    /\ \E q \in RingNames : \E si \in 0..(Len(q) - 1) :
       \E signer_private, others_private \in BOOLEAN :
          /\ ring = [i \in DOMAIN q |->
                       IF (IF i - 1 = si THEN signer_private ELSE others_private)
                       THEN KeyOf[q[i]] ELSE publickey(KeyOf[q[i]])]
          /\ s = si
    /\ msg = <<1>>
    /\ signature = <<>>
    /\ valid = "none"
    /\ NoAuction

SpecSign == InitSign /\ [][NextTest]_vars

-----------------------------------------------------------------------------
(* The chunked cipher and the commitment, called on their own as the tests *)
(* of src/tests/crypto_test.py call them                                   *)

MaxPlain == 3        \* bytes of the longest plaintext: MaxPlain chunks
MaxByte == 1         \* the bytes of a plaintext and of a nonce are 0..MaxByte

\* msg = b'...' of the encryption tests: nothing, one chunk, many chunks
InitCipher ==
    /\ ring = <<>>
    /\ s = 0
    /\ msg \in UNION {[1..n -> 0..MaxByte] : n \in 0..MaxPlain}
    /\ signature = <<>>
    /\ valid = "none"
    /\ NoAuction

\* cipher = encrypt(msg, CryptoTest.key), the key being any key pair whose
\* modulus holds a padded chunk
TestEncrypt ==
    /\ last.op = "none"
    /\ \E a \in {b \in Names : KeyOf[b].n >= 3 * ByteValues + 2} :
        \E seeds \in [1..Len(msg) -> 0..1] :
          last' = [op |-> "encrypt", key |-> KeyOf[a],
                   raised |-> IF encrypt_raises(msg) THEN "TypeError" ELSE "none",
                   cipher |-> IF encrypt_raises(msg) THEN None
                              ELSE encrypt(msg, publickey(KeyOf[a]), seeds)]
    /\ UNCHANGED <<testVars, participants, bidders, winning_com, winning_bidder,
                   driver>>

\* one byte of the cipher text changed between encrypt and decrypt
TestAlterCipher ==
    /\ last.op = "encrypt"
    /\ last.raised = "none"
    /\ \E i \in DOMAIN last.cipher : \E mask \in 1..MaxFlip :
          last' = [op |-> "alter_cipher", key |-> last.key, raised |-> "none",
                   cipher |-> flip(last.cipher, i, mask)]
    /\ UNCHANGED <<testVars, participants, bidders, winning_com, winning_bidder,
                   driver>>

\* plain = decrypt(cipher, CryptoTest.key)
TestDecrypt ==
    /\ last.op \in {"encrypt", "alter_cipher"}
    /\ last.raised = "none"
    /\ last' = [op |-> "decrypt", key |-> last.key, cipher |-> last.cipher,
                altered |-> last.op = "alter_cipher",
                raised |-> IF decrypt_raises(last.cipher, last.key)
                           THEN "ValueError" ELSE "none",
                plain |-> IF decrypt_raises(last.cipher, last.key) THEN None
                          ELSE decrypt(last.cipher, last.key)]
    /\ UNCHANGED <<testVars, participants, bidders, winning_com, winning_bidder,
                   driver>>

\* c = commit(msg, r), over nonces of every length up to one byte too many
TestCommit ==
    /\ last.op = "none"
    /\ \E r \in UNION {[1..n -> 0..MaxByte] : n \in 0..(HashLen + 1)} :
          last' = [op |-> "commit", r |-> r,
                   raised |-> IF commit_raises(r) THEN "ValueError" ELSE "none",
                   c |-> IF commit_raises(r) THEN None ELSE commit(msg, r)]
    /\ UNCHANGED <<testVars, participants, bidders, winning_com, winning_bidder,
                   driver>>

NextCipher == TestEncrypt \/ TestAlterCipher \/ TestDecrypt \/ TestCommit

SpecCipher == InitCipher /\ [][NextCipher]_vars
-----------------------------------------------------------------------------
(* One auction: the bidders build their bundles, and the auctioneer's methods *)
(* are called in any order on what the bidders send                          *)

NoTest ==
    /\ ring = <<>>
    /\ s = 0
    /\ msg = <<>>
    /\ signature = <<>>
    /\ valid = "none"

\* Bidder.__init__(name, bid) for every bidder, and Auctioneer.__init__
Init ==
    /\ \E seed \in 0..MaxSeed : \E bid_values \in [Bidders -> 0..MaxBid] :
          participants = [b \in Bidders |-> new_bidder(b, bid_values[b], seed)]
    /\ bidders = <<>>
    /\ winning_com = None
    /\ winning_bidder = NoKey
    /\ last = [op |-> "none"]
    /\ driver = NoDriver
    /\ NoTest

\* bidder.make_ring(pub_keys)
MakeRing(b) ==
    /\ participants[b].ring = <<>>
    /\ participants' = [participants EXCEPT ![b] = after_make_ring(@)]
    /\ last' = [op |-> "make_ring", name |-> b]
    /\ UNCHANGED <<bidders, winning_com, winning_bidder, testVars, driver>>

\* bidder.bid()
Bid(b) ==
    /\ participants[b].ring # <<>>
    /\ participants[b].c = None
    /\ participants' = [participants EXCEPT ![b] = after_bid(@)]
    /\ last' = [op |-> "bid", name |-> b]
    /\ UNCHANGED <<bidders, winning_com, winning_bidder, testVars, driver>>

\* self.__auctioneer.bid_opening(address, ring, c, sig, tau_1)
BidOpening(address, r, c, sig, tau_1) ==
    \E res \in {bid_opening(bidders, address, r, c, sig, tau_1)} :
       /\ bidders' = res.bidders
       /\ last' = [op |-> "bid_opening", address |-> address, ring |-> r, c |-> c,
                   sig |-> sig, tau_1 |-> tau_1, status |-> res.status]
       /\ UNCHANGED <<participants, winning_com, winning_bidder, testVars, driver>>

\* bid_opening for the address of a bidder that has built its bundle
BidOpeningCall ==
    \E b \in Bidders :
        /\ participants[b].c # None
        /\ \E in \in opening_inputs[participants[b]] :
              BidOpening(b, in.ring, in.c, in.sig, in.tau_1)

\* self.__auctioneer.get_winning_commitment()
GetWinningCommitment ==
    /\ winning_com' = get_winning_commitment(bidders, winning_com)
    /\ last' = [op |-> "get_winning_commitment"]
    /\ UNCHANGED <<participants, bidders, winning_bidder, testVars, driver>>

\* self.__auctioneer.identity_opening(sig, tau_2)
IdentityOpening(sig, tau_2) ==
    \E res \in {identity_opening(winning_bidder, winning_com, sig, tau_2)} :
       /\ winning_bidder' = res.winning_bidder
       /\ last' = [op |-> "identity_opening", sig |-> sig, tau_2 |-> tau_2,
                   status |-> res.status]
       /\ UNCHANGED <<participants, bidders, winning_com, testVars, driver>>

\* identity_opening on what a bidder that has built its bundle sends
IdentityOpeningCall ==
    \E b \in Bidders :
        /\ participants[b].c # None
        /\ \E in \in identity_inputs[participants[b]] : IdentityOpening(in.sig, in.tau_2)

Next ==
    \/ \E b \in Bidders : MakeRing(b)
    \/ \E b \in Bidders : Bid(b)
    \/ BidOpeningCall
    \/ GetWinningCommitment
    \/ IdentityOpeningCall

Spec == Init /\ [][Next]_vars

-----------------------------------------------------------------------------
(* The openings alone, with every single byte of the published sig changed *)

\* bid_opening on the fields of a bidder as it published them
BidOpeningAsPublished ==
    \E b \in Bidders :
        /\ participants[b].c # None
        /\ BidOpening(b, participants[b].ring, participants[b].c,
                      participants[b].sig, participants[b].tau_1)

\* bid_opening on the published fields with one byte of sig changed on the way
BidOpeningSigTampered ==
    \E b \in Bidders :
        /\ participants[b].c # None
        /\ \E in \in sig_tampered_inputs[participants[b]] :
              BidOpening(b, in.ring, in.c, in.sig, in.tau_1)

NextSigTampered ==
    \/ \E b \in Bidders : MakeRing(b)
    \/ \E b \in Bidders : Bid(b)
    \/ BidOpeningAsPublished
    \/ BidOpeningSigTampered

SpecSigTampered == Init /\ [][NextSigTampered]_vars

-----------------------------------------------------------------------------
(* The tally written to between the openings and get_winning_commitment: the *)
(* driver holds the auctioneer and writes to its bidders dictionary          *)

\* auctioneer.bidders[address]['bid'] = x, for another x than the stored bid
TamperEntry ==
    /\ \E i \in DOMAIN bidders : \E x \in 0..(MaxBid + 1) :
          /\ x # bidders[i].bid
          /\ bidders' = [bidders EXCEPT ![i].bid = x]
    /\ last' = [op |-> "tamper"]
    /\ UNCHANGED <<participants, winning_com, winning_bidder, testVars, driver>>

NextTampered ==
    \/ \E b \in Bidders : MakeRing(b)
    \/ \E b \in Bidders : Bid(b)
    \/ BidOpeningAsPublished
    \/ TamperEntry
    \/ GetWinningCommitment

SpecTampered == Init /\ [][NextTampered]_vars

-----------------------------------------------------------------------------
(* The openings called again: bid_opening takes the address and the bundle   *)
(* from its caller, so an address can come with another bundle that passes   *)

\* bid_opening for an address with the bundle another bidder published
BidOpeningOtherBundle ==
    \E address \in Bidders : \E b \in Bidders \ {address} :
        /\ participants[b].c # None
        /\ BidOpening(address, participants[b].ring, participants[b].c,
                      participants[b].sig, participants[b].tau_1)

NextReopened ==
    \/ \E b \in Bidders : MakeRing(b)
    \/ \E b \in Bidders : Bid(b)
    \/ BidOpeningAsPublished
    \/ BidOpeningOtherBundle

SpecReopened == Init /\ [][NextReopened]_vars

-----------------------------------------------------------------------------
(* The identity opening on a token whose cipher text was changed before it   *)
(* was sealed                                                                *)

\* identity_opening on sig and tau_2 sealed over a changed C2
IdentityOpeningSealed ==
    \E b \in Bidders :
        /\ participants[b].c # None
        /\ \E in \in sealed_inputs[participants[b]] : IdentityOpening(in.sig, in.tau_2)

NextSealed ==
    \/ \E b \in Bidders : MakeRing(b)
    \/ \E b \in Bidders : Bid(b)
    \/ BidOpeningAsPublished
    \/ GetWinningCommitment
    \/ IdentityOpeningSealed

SpecSealed == Init /\ [][NextSealed]_vars

-----------------------------------------------------------------------------
(* Entries removed from the tally between the openings and the tallies        *)

\* self.__auctioneer.bidders.pop(address, None), for an address in the tally
PopEntry ==
    /\ \E address \in {bidders[i].address : i \in DOMAIN bidders} :
          /\ bidders' = SelectSeq(bidders, LAMBDA entry : entry.address # address)
          /\ last' = [op |-> "pop", address |-> address]
    /\ UNCHANGED <<participants, winning_com, winning_bidder, testVars, driver>>

NextPopped ==
    \/ \E b \in Bidders : MakeRing(b)
    \/ \E b \in Bidders : Bid(b)
    \/ BidOpeningAsPublished
    \/ PopEntry
    \/ GetWinningCommitment

SpecPopped == Init /\ [][NextPopped]_vars
-----------------------------------------------------------------------------
(* The round as Auction.proof_of_concept drives it: src/src/auction.py       *)

MaxEvents == 2       \* newBidder events the filter returns: 0..MaxEvents

\* get_bidders(Path('bidders.json')): the data['bidders'] lists explored
Rosters ==
    {q \in UNION {[1..n -> Bidders] : n \in 0..Cardinality(Bidders)} :
        \A i, j \in DOMAIN q : i # j => q[i] # q[j]}

\* new_bidder_filter.get_new_entries(): the newBidderAddress of every event, an
\* account other than the auctioneer's
EventLists == UNION {[1..n -> {"b1", "b2", "b3"}] : n \in 0..MaxEvents}

\* pub_keys: the public keys of the bidders, then the auctioneer's
round_keys(roster) ==
    [i \in DOMAIN roster |-> publickey(KeyOf[roster[i]])] \o <<publickey(KeyOf["auctioneer"])>>

\* self.__auctioneer.bidders[new_bidder_address] = None: the key with None as value
none_entry(address) == [address |-> address]

\* the entries get_winning_commitment reads before bidder['bid'] fails on a None
RECURSIVE before_none(_)
before_none(tally) ==
    IF tally = <<>> \/ Head(tally) = none_entry(Head(tally).address) THEN <<>>
    ELSE <<Head(tally)>> \o before_none(Tail(tally))

\* Auctioneer(address), get_bidders(Path('bidders.json'))
InitRound ==
    /\ \E seed \in 0..MaxSeed : \E roster \in Rosters : \E bid_values \in [Bidders -> 0..MaxBid] :
          /\ participants = [b \in Range(roster) |-> new_bidder(b, bid_values[b], seed)]
          /\ driver = [pc |-> "make_ring", i |-> 1, roster |-> roster, events |-> <<>>,
                       error |-> "none", line |-> 0]
    /\ bidders = <<>>
    /\ winning_com = None
    /\ winning_bidder = NoKey
    /\ last = [op |-> "none"]
    /\ NoTest

\* for (index, bidder) in enumerate(self.__bidders): bidder.make_ring(pub_keys)
DriverMakeRing ==
    /\ driver.pc = "make_ring"
    /\ driver.i <= Len(driver.roster)
    /\ \E b \in {driver.roster[driver.i]} :
          /\ participants' = [participants EXCEPT ![b] =
                 with_ring(@, make_ring(b, round_keys(driver.roster), @.seed, first_draw(b)))]
          /\ last' = [op |-> "make_ring", name |-> b]
    /\ driver' = [driver EXCEPT !.pc = "make_ring", !.i = driver.i + 1]
    /\ UNCHANGED <<bidders, winning_com, winning_bidder, testVars>>

\* self.__send_transaction(tx, self.__auctioneer, 'startAuction')
DriverStartAuction ==
    /\ driver.pc = "make_ring"
    /\ driver.i > Len(driver.roster)
    /\ driver' = [driver EXCEPT !.pc = "place_bids", !.i = 1]
    /\ UNCHANGED <<participants, bidders, winning_com, winning_bidder, last, testVars>>

\* for bidder in self.__bidders: bidder.bid()
DriverBid ==
    /\ driver.pc = "place_bids"
    /\ driver.i <= Len(driver.roster)
    /\ \E b \in {driver.roster[driver.i]} :
          /\ participants' = [participants EXCEPT ![b] = after_bid(@)]
          /\ last' = [op |-> "bid", name |-> b]
    /\ driver' = [driver EXCEPT !.pc = "place_bid", !.i = driver.i]
    /\ UNCHANGED <<bidders, winning_com, winning_bidder, testVars>>

\* the arguments of 'placeBid': bidder.csig is an attribute no Bidder has
DriverPlaceBid ==
    /\ driver.pc = "place_bid"
    /\ driver' = [driver EXCEPT !.pc = "raised", !.error = "AttributeError", !.line = 297]
    /\ UNCHANGED <<participants, bidders, winning_com, winning_bidder, last, testVars>>

\* new_bidder_filter.get_new_entries(), once the loop over self.__bidders is over
DriverNewEntries ==
    /\ driver.pc = "place_bids"
    /\ driver.i > Len(driver.roster)
    /\ \E events \in EventLists : driver' = [driver EXCEPT !.pc = "events", !.i = 1, !.events = events]
    /\ UNCHANGED <<participants, bidders, winning_com, winning_bidder, last, testVars>>

\* for event in ...: self.__auctioneer.bidders[new_bidder_address] = None
DriverNewBidder ==
    /\ driver.pc = "events"
    /\ driver.i <= Len(driver.events)
    /\ \E address \in {driver.events[driver.i]} :
          bidders' = put(bidders, address, none_entry(address))
    /\ driver' = [driver EXCEPT !.pc = "events", !.i = driver.i + 1]
    /\ UNCHANGED <<participants, winning_com, winning_bidder, last, testVars>>

\* for bidder in self.__bidders: the openings, of no bidder once this is reached
DriverOpenings ==
    /\ driver.pc = "events"
    /\ driver.i > Len(driver.events)
    /\ Len(driver.roster) = 0
    /\ driver' = [driver EXCEPT !.pc = "winning", !.i = 1]
    /\ UNCHANGED <<participants, bidders, winning_com, winning_bidder, last, testVars>>

\* self.__auctioneer.get_winning_commitment(): bidder['bid'] of a None value
\* raises TypeError, after the entries before it were read
DriverGetWinningCommitment ==
    /\ driver.pc = "winning"
    /\ winning_com' = get_winning_commitment(before_none(bidders), winning_com)
    /\ last' = [op |-> "get_winning_commitment"]
    /\ driver' = IF \E i \in DOMAIN bidders : bidders[i] = none_entry(bidders[i].address)
                 THEN [driver EXCEPT !.pc = "raised", !.error = "TypeError", !.line = 128]
                 ELSE [driver EXCEPT !.pc = "announce", !.i = 1]
    /\ UNCHANGED <<participants, bidders, winning_bidder, testVars>>

\* 'announceWinningCommitment', then for bidder in self.__bidders: 'openIdentity'
DriverAnnounce ==
    /\ driver.pc = "announce"
    /\ Len(driver.roster) = 0
    /\ driver' = [driver EXCEPT !.pc = "identity", !.i = 1]
    /\ UNCHANGED <<participants, bidders, winning_com, winning_bidder, last, testVars>>

\* self.__call('bidders', self.__auctioneer.winning_address): an attribute no
\* Auctioneer has
DriverIdentity ==
    /\ driver.pc = "identity"
    /\ driver' = [driver EXCEPT !.pc = "raised", !.error = "AttributeError", !.line = 362]
    /\ UNCHANGED <<participants, bidders, winning_com, winning_bidder, last, testVars>>

NextRound ==
    \/ DriverMakeRing
    \/ DriverStartAuction
    \/ DriverBid
    \/ DriverPlaceBid
    \/ DriverNewEntries
    \/ DriverNewBidder
    \/ DriverOpenings
    \/ DriverGetWinningCommitment
    \/ DriverAnnounce
    \/ DriverIdentity

SpecRound == InitRound /\ [][NextRound]_vars


-----------------------------------------------------------------------------
(* make_ring on its own, once, over the lists of keys a round can hand to it *)

MaxFirstDraw == 6    \* numbers of the first draw make_ring takes: 0..MaxFirstDraw

\* bidder.make_ring(keys): keys any list of distinct public keys that holds the
\* bidder's and the auctioneer's, the generator being anywhere in its run
MakeRingOn(b) ==
    /\ last.op = "none"
    /\ \E q \in UNION {[1..n -> Names] : n \in 2..Cardinality(Names)} :
       \E d \in 0..MaxFirstDraw :
          /\ \A i, j \in DOMAIN q : i # j => q[i] # q[j]
          /\ {b, "auctioneer"} \subseteq Range(q)
          /\ \E keys \in {[i \in DOMAIN q |-> publickey(KeyOf[q[i]])]} :
                /\ participants' = [participants EXCEPT ![b] =
                       with_ring(@, make_ring(b, keys, @.seed, d))]
                /\ last' = [op |-> "make_ring", name |-> b, keys |-> keys]
    /\ UNCHANGED <<bidders, winning_com, winning_bidder, testVars, driver>>

NextMakeRing == \E b \in Bidders : MakeRingOn(b)

SpecMakeRing == Init /\ [][NextMakeRing]_vars

-----------------------------------------------------------------------------
(* Participant.set_ring on one list of public keys handed to several         *)
(* participants: src/src/participant.py.  self._ring = keys binds the        *)
(* caller's list itself, so every _ring that was set is the list in ring     *)

\* Participant.__init__ for every bidder, and the caller's list keys: distinct
\* public keys, 2..MaxRing of them
InitSetRing ==
    /\ \E q \in RingNames : ring = [i \in DOMAIN q |-> publickey(KeyOf[q[i]])]
    /\ participants = [b \in Bidders |-> [_ring |-> "None", _s |-> -1]]
    /\ s = 0
    /\ msg = <<>>
    /\ signature = <<>>
    /\ valid = "none"
    /\ bidders = <<>>
    /\ winning_com = None
    /\ winning_bidder = NoKey
    /\ last = [op |-> "none"]
    /\ driver = NoDriver

\* participant.set_ring(keys): self._ring = keys, then self._ring.index(
\* self.public_key), which raises ValueError when the list does not hold it,
\* then self._ring[self._s] = self._RSA_key
SetRing(b) ==
    /\ participants[b]._ring = "None"
    /\ IF \E i \in DOMAIN ring : ring[i] = publickey(KeyOf[b])
       THEN \E si \in {index(ring, publickey(KeyOf[b]))} :
               /\ participants' = [participants EXCEPT ![b] = [_ring |-> "keys", _s |-> si]]
               /\ ring' = [ring EXCEPT ![si + 1] = KeyOf[b]]
               /\ last' = [op |-> "set_ring", name |-> b, keys |-> ring,
                           raised |-> "none"]
       ELSE /\ participants' = [participants EXCEPT ![b]._ring = "keys"]
            /\ ring' = ring
            /\ last' = [op |-> "set_ring", name |-> b, keys |-> ring,
                        raised |-> "ValueError"]
    /\ UNCHANGED <<s, msg, signature, valid, bidders, winning_com, winning_bidder,
                   driver>>

SpecSetRing == InitSetRing /\ [][\E b \in Bidders : SetRing(b)]_vars

-----------------------------------------------------------------------------
(* C1 *)

\* C1: ring signature soundness: whatever the ring (2 or more keys), the signer
\* index s (first, middle or last) holding the private key of ring[s], the
\* message and the random draws, verify accepts what sign returned.
C1_Soundness == valid # "False"

C1_Witness == valid = "True" /\ Len(ring) >= 3 /\ s = Len(ring) - 1

-----------------------------------------------------------------------------
(* C2 *)

\* the key pair whose public half is pub
KeyPairOf(pub) == CHOOSE key \in {KeyOf[a] : a \in Names} : publickey(key) = publickey(pub)

\* every signature sign can return for the ring's public keys and message m when
\* the signer is the holder of the key at index si, over all its random draws
SignOutputs(keys, si, m) ==
    LET pub == [i \in DOMAIN keys |-> publickey(keys[i])]
        own == [pub EXCEPT ![si + 1] = KeyPairOf(pub[si + 1])]
    IN {sign(own, si, m, v_prime, [x EXCEPT ![si] = 0]) :
            v_prime \in 0..RandMax, x \in [0..(Len(keys) - 1) -> 0..RandMax]}

\* C2: signer anonymity: for a fixed ring and message the signatures sign can
\* return are the same for every signer index, so a signature returned for the
\* signer at index s is also one sign can return for every other index.
C2_Anonymity ==
    signature # <<>> =>
        \A s2 \in 0..(Len(ring) - 1) : signature \in SignOutputs(ring, s2, msg)

-----------------------------------------------------------------------------
(* C3 *)

\* C3: identity binding: when identity_opening returns True, the key it records
\* as winning_bidder is the public key of the bidder that built the bundle of
\* the winning commitment.
C3_IdentityBinding ==
    [][last'.op = "identity_opening" /\ last'.status = "True"
          => \A b \in Bidders :
                participants[b].c = winning_com => winning_bidder' = publickey(KeyOf[b])]_vars

-----------------------------------------------------------------------------
(* C4 *)

\* the checks the claim lists, on the arguments of one call, from the
\* primitives: whether all of them hold, and the bid and decommitment in m1
C4_checks(r, c, sig, tau_1) ==
    LET sigma == parse_sig(sig)[1]
        c1 == parse_sig(sig)[2]
        C1 == parse_tau(tau_1)[1]
        d1 == parse_tau(tau_1)[2]
        opens == /\ ~verify_raises(sigma, r)
                 /\ verify(sigma, c, r)
                 /\ commit(C1, d1) = c1
                 /\ ~decrypt_raises(C1, KeyOf["auctioneer"])
        m1 == parse_m1(decrypt(C1, KeyOf["auctioneer"]))
    IN [all |-> /\ opens
                /\ m1[1] = c
                /\ m1[2] = sigma
                /\ ~verify_raises(m1[3], r)
                /\ verify(m1[3], c \o sigma, r)
                /\ commit(m1[4], m1[5]) = c,
        bid |-> IF opens THEN from_bytes(m1[4]) ELSE 0,
        decom |-> IF opens THEN m1[5] ELSE None]

C4_checked ==
    [in \in DOMAIN opening_checked |-> C4_checks(in.ring, in.c, in.sig, in.tau_1)]

\* C4: bid_opening returns True exactly when sigma verifies on c over the ring,
\* commit(C1, d1) is c1, the decrypted C1 carries c and sigma, Sigma verifies
\* on c + sigma over the ring and commit(bid, d) is c; and then the tally holds
\* for the address exactly the entry of this bid, c and d.
C4_AcceptedExactlyWhen ==
    last.op = "bid_opening" =>
        LET in == [ring |-> last.ring, c |-> last.c, sig |-> last.sig, tau_1 |-> last.tau_1]
            checks == IF in \in DOMAIN C4_checked THEN C4_checked[in]
                      ELSE C4_checks(in.ring, in.c, in.sig, in.tau_1)
            at == {i \in DOMAIN bidders : bidders[i].address = last.address}
        IN /\ (last.status = "True") <=> checks.all
           /\ last.status = "True" =>
                 /\ Cardinality(at) = 1
                 /\ \A i \in at : bidders[i] = [address |-> last.address, bid |-> checks.bid,
                                                com |-> last.c, decom |-> checks.decom]

C4_Witness ==
    /\ last.op = "bid_opening"
    /\ last.status = "True"
    /\ Len(bidders) = 2
    /\ bidders[2].address = last.address

-----------------------------------------------------------------------------
(* C5 *)

\* C5: a bid_opening call that returns False leaves the tally, winning_com and
\* winning_bidder as they were before the call.
C5_RejectedChangesNothing ==
    [][last'.op = "bid_opening" /\ last'.status = "False"
          => /\ bidders' = bidders
             /\ winning_com' = winning_com
             /\ winning_bidder' = winning_bidder]_vars

C5_Witness ==
    /\ last.op = "bid_opening"
    /\ last.status = "False"
    /\ bidders # <<>>
    /\ winning_com # None
    /\ winning_bidder # NoKey

-----------------------------------------------------------------------------
(* C6 *)

\* the call is made for a bidder with the fields it published, except that
\* exactly one byte of sig, at one of the positions, is another byte
sig_tampered(call, p, positions) ==
    /\ call.op = "bid_opening"
    /\ call.ring = p.ring
    /\ call.c = p.c
    /\ call.tau_1 = p.tau_1
    /\ p.sig # None
    /\ Len(call.sig) = Len(p.sig)
    /\ \E i \in positions : /\ call.sig[i] # p.sig[i]
                            /\ \A j \in DOMAIN p.sig : j # i => call.sig[j] = p.sig[j]

\* the positions of sigma and c1 in sig = sigma + c1 + c2, and those of c2
in_sigma_c1(sig) == 1..(Len(sig) - HashLen)
in_c2(sig) == (Len(sig) - HashLen + 1)..Len(sig)

\* C6 as stated: with any single byte of the published sig changed, in sigma, in
\* c1 or in c2, bid_opening returns False and the tally is left as it was.
C6_AnyByte ==
    [][\A b \in Bidders :
          (last'.op = "bid_opening" /\ last'.address = b
              /\ sig_tampered(last', participants[b], DOMAIN participants[b].sig))
          => last'.status = "False" /\ bidders' = bidders]_vars

\* C6, amended: with a single byte of sigma or of c1 in the published sig
\* changed, bid_opening returns False and the tally is left as it was; with a
\* single byte of c2 changed, bid_opening returns True as it does for the
\* published sig, c2 being checked by identity_opening only.
C6_SigmaOrC1Byte ==
    [][\A b \in Bidders :
          /\ (last'.op = "bid_opening" /\ last'.address = b
                 /\ sig_tampered(last', participants[b], in_sigma_c1(participants[b].sig)))
             => last'.status = "False" /\ bidders' = bidders
          /\ (last'.op = "bid_opening" /\ last'.address = b
                 /\ sig_tampered(last', participants[b], in_c2(participants[b].sig)))
             => last'.status = "True"]_vars

C6_Witness ==
    /\ last.op = "bid_opening"
    /\ last.status = "False"
    /\ sig_tampered(last, participants[last.address],
                    {Len(participants[last.address].sig) - HashLen})
    /\ \A i \in DOMAIN bidders : bidders[i].address # last.address

-----------------------------------------------------------------------------
(* C7 *)

\* C7: happy path of one honest bidder b with any bid value: bid_opening on the
\* published fields returns True and records the bid; get_winning_commitment on
\* the tally that holds this entry only sets winning_com to the c of b; then
\* identity_opening on sig and tau_2 of b returns True and winning_bidder is
\* the public key of b.
C7_HappyPath ==
    [][\A b \in Bidders :
          LET p == participants[b]
          IN /\ (/\ last'.op = "bid_opening"
                 /\ last'.address = b
                 /\ <<last'.ring, last'.c, last'.sig, last'.tau_1>> = <<p.ring, p.c, p.sig, p.tau_1>>)
                => /\ last'.status = "True"
                   /\ \E i \in DOMAIN bidders' : /\ bidders'[i].address = b
                                                 /\ bidders'[i].bid = p.bid_value
             /\ (/\ last'.op = "get_winning_commitment"
                 /\ bidders = <<[address |-> b, bid |-> p.bid_value, com |-> p.c, decom |-> p.d]>>)
                => winning_com' = p.c
             /\ (/\ last'.op = "identity_opening"
                 /\ winning_com = p.c
                 /\ last'.sig = p.sig
                 /\ last'.tau_2 = p.tau_2)
                => /\ last'.status = "True"
                   /\ winning_bidder' = publickey(KeyOf[b])]_vars

-----------------------------------------------------------------------------
(* C8, C9, C10 *)

\* the entries of the tally whose commitment re-verifies
valid_entries(tally) ==
    {i \in DOMAIN tally :
        commit(to_bytes(tally[i].bid, HashLen), tally[i].decom) = tally[i].com}

\* the valid entries whose bid no other valid entry exceeds
greatest(tally) ==
    {i \in valid_entries(tally) :
        \A j \in valid_entries(tally) : tally[i].bid >= tally[j].bid}

\* C8: after get_winning_commitment on a tally with a valid entry, winning_com
\* is the commitment of a valid entry whose bid no other valid entry exceeds,
\* bids of 0 included.
C8_GreatestBidWins ==
    [][last'.op = "get_winning_commitment" /\ valid_entries(bidders) # {}
          => \E i \in greatest(bidders) : winning_com' = bidders[i].com]_vars

\* C9: when several valid entries share the greatest bid, get_winning_commitment
\* records the commitment of the one that was inserted first.
C9_FirstSeenWins ==
    [][last'.op = "get_winning_commitment" /\ Cardinality(greatest(bidders)) >= 2
          => \E i \in greatest(bidders) :
                /\ \A j \in greatest(bidders) : i <= j
                /\ winning_com' = bidders[i].com]_vars

-----------------------------------------------------------------------------
(* C11 *)

\* the conditions the claim lists, on the arguments of one identity_opening
\* call, from the primitives, com being the current winning commitment:
\* whether all of them hold, and pub_bidder as m2 names it
C11_checks(com, sig, tau_2) ==
    LET c2 == parse_sig(sig)[3]
        C2 == parse_tau(tau_2)[1]
        d2 == parse_tau(tau_2)[2]
        opens == commit(C2, d2) = c2 /\ ~decrypt_raises(C2, KeyOf["auctioneer"])
        m2 == parse_m2(decrypt(C2, KeyOf["auctioneer"]))
        R2 == <<importKey(m2[2]), importKey(m2[3])>>
    IN [all |-> /\ opens
                /\ m2[1] = com
                /\ ~verify_raises(m2[6], R2)
                /\ verify(m2[6], m2[1] \o m2[4] \o m2[5], R2),
        pub_bidder |-> IF opens THEN importKey(m2[2]) ELSE NoKey]

C11_checked ==
    [in \in DOMAIN identity_checked |-> C11_checks(in.com, in.sig, in.tau_2)]

\* C11: identity_opening returns True exactly when commit(C2, d2) is the c2 of
\* sig, the c inside the decrypted C2 is the current winning_com and delta
\* verifies on c + sig~ + Sigma over [pub_bidder, pub_auctioneer]; when it
\* returns True winning_bidder is pub_bidder, and otherwise winning_bidder is
\* left as it was.
C11_AcceptedExactlyWhen ==
    [][last'.op = "identity_opening" =>
          LET in == [com |-> winning_com, sig |-> last'.sig, tau_2 |-> last'.tau_2]
              checks == IF in \in DOMAIN C11_checked THEN C11_checked[in]
                        ELSE C11_checks(in.com, in.sig, in.tau_2)
          IN /\ (last'.status = "True") <=> checks.all
             /\ last'.status = "True" => winning_bidder' = checks.pub_bidder
             /\ last'.status # "True" => winning_bidder' = winning_bidder]_vars

\* identity_opening has accepted the published sig and tau_2 of the bidder of
\* the winning commitment, after winning_com was set
C11_Witness ==
    /\ last.op = "identity_opening"
    /\ last.status = "True"
    /\ \E b \in Bidders : /\ participants[b].c = winning_com
                          /\ last.sig = participants[b].sig
                          /\ last.tau_2 = participants[b].tau_2
                          /\ winning_bidder = publickey(KeyOf[b])

-----------------------------------------------------------------------------
(* C12 *)

\* C12: winning_com and winning_bidder are write-once: over any sequence of
\* calls on the auctioneer, once one of them holds a value, no call changes it
\* to another value.
C12_WriteOnce ==
    [][/\ winning_com # None => winning_com' = winning_com
       /\ winning_bidder # NoKey => winning_bidder' = winning_bidder]_vars

-----------------------------------------------------------------------------
\* C13: in every state of a round each key of the tally maps to a complete
\* {bid, com, decom} entry that an Accepted bid_opening for that address
\* stored: an entry appears or changes only in the step of such a call, and
\* no address is in the tally before its bid was opened.
C13_complete(entry) == {"bid", "com", "decom"} \subseteq DOMAIN entry

-----------------------------------------------------------------------------
\* C14: a tally entry is never mutated: an address that is in the tally before
\* a step and after it maps to the same bid, commitment and decommitment; the
\* tally changes only by a new address coming in or an address going out.
C14_NeverMutated ==
    [][\A i \in DOMAIN bidders : \A j \in DOMAIN bidders' :
          bidders'[j].address = bidders[i].address => bidders'[j] = bidders[i]]_vars

-----------------------------------------------------------------------------
C17_y(keys, f, at) == RSA_mult(At(f, at + 1), At(keys, at).e, At(keys, at).n)

\* v before index of verify's reduce: f[1] (glue), then the digests
RECURSIVE C17_v(_, _, _, _)
C17_v(keys, f, k, at) ==
    IF at = 0 THEN f[1]
    ELSE E_k(to_bytes(Xor(C17_v(keys, f, k, at - 1), C17_y(keys, f, at - 1)), sig_size), k)

\* what E_k digests at index
C17_in(keys, f, k, at) == Xor(C17_v(keys, f, k, at), C17_y(keys, f, at))

\* the digest maps no two different values of the walks over R1 and R2 at
\* the same index to one value
C17_no_collision(R1, R2, f, k) ==
    \A at \in 0..(Len(R1) - 1) :
        C17_in(R1, f, k, at) # C17_in(R2, f, k, at)
            => C17_v(R1, f, k, at + 1) # C17_v(R2, f, k, at + 1)

\* the key put at the index maps x[index] to another y than the key it replaces
C17_changes_y ==
    C17_y(last.signed_with, sig_fields(signature), last.index)
        # C17_y(ring, sig_fields(signature), last.index)

-----------------------------------------------------------------------------
\* C19: for a signature whose length in bytes is not a multiple of the width
\* of the modulus, verify signals an error and returns no verdict: a valid
\* signature with bytes appended is not accepted.
C19_LengthChecked ==
    (valid # "none" /\ Len(signature) % sig_size # 0) => valid \notin {"True", "False"}

-----------------------------------------------------------------------------
\* C20: verify never throws on a signature whose length is a multiple of the
\* width of the modulus, whatever the message and the ring, also when it has
\* fewer than n + 1 fields for a ring of n keys: it returns True or False.
C20_NeverThrows ==
    (valid # "none" /\ Len(signature) % sig_size = 0) => valid \in {"True", "False"}

-----------------------------------------------------------------------------
(* The chunked cipher *)

\* C21: for every byte string, the empty one, one shorter than a chunk, one of
\* exactly a chunk and one of many chunks included, encrypt returns a cipher
\* text and decrypt of that cipher text under the private key returns the string
C21_RoundTrip ==
    /\ last.op = "encrypt" => last.raised = "none"
    /\ (last.op = "decrypt" /\ ~last.altered) =>
          (last.raised = "none" /\ last.plain = msg)

\* C22: decrypt returns no plaintext and raises as soon as one block of the
\* cipher text fails the integrity check of the padding, wherever the block is
\* and however many blocks before it decrypted correctly
C22_bad(i) ==
    decrypt_block_raises(chunks(last.cipher, sig_size)[i], last.key)

C22_AllOrNothing ==
    (/\ last.op = "decrypt"
     /\ \E i \in 1..(Len(last.cipher) \div sig_size) : C22_bad(i))
        => (last.raised = "ValueError" /\ last.plain = None)

\* the last of MaxPlain blocks is the only bad one
C22_Witness ==
    /\ last.op = "decrypt"
    /\ Len(last.cipher) = MaxPlain * sig_size
    /\ \A i \in 1..MaxPlain : C22_bad(i) <=> i = MaxPlain
    /\ last.raised = "ValueError" /\ last.plain = None

-----------------------------------------------------------------------------
(* The commitment *)

\* C23: commit(msg, r) raises for every nonce r that is not exactly HashLen
\* bytes long (32 in the code), longer or shorter, the empty nonce included,
\* and returns a commitment only for a nonce of HashLen bytes
C23_NonceLength ==
    last.op = "commit" => (last.raised = "none" <=> Len(last.r) = HashLen)

-----------------------------------------------------------------------------
(* The ring outside the bidder *)

\* C24: the ring a bidder makes available holds public keys only: neither what
\* export_ring returns nor the ring handed to bid_opening holds a private
\* exponent
C24_PublicRingOnly ==
    /\ \A b \in DOMAIN participants : \A i \in DOMAIN participants[b].ring :
          ~has_private(export_ring(participants[b].ring)[i])
    /\ last.op = "bid_opening" =>
          \A i \in DOMAIN last.ring : ~has_private(last.ring[i])

-----------------------------------------------------------------------------
(* The round *)

\* the addresses that are keys of the tally
C25_keys(tally) == {tally[i].address : i \in DOMAIN tally}

-----------------------------------------------------------------------------
(* The ring make_ring leaves *)

\* the ring of the bidder make_ring was last called on
C28_ring == participants[last.name].ring

\* C28: after make_ring(keys) on distinct keys that hold the bidder's and the
\* auctioneer's public keys, the ring has 2 to len(keys) members and no key
\* twice, holds the auctioneer's public key, holds the bidder's own key at index
\* s and nowhere else, and ring[s] alone carries a private exponent
C28_RingMade ==
    last.op = "make_ring" =>
        /\ Len(C28_ring) >= 2 /\ Len(C28_ring) <= Len(last.keys)
        /\ \A i, j \in DOMAIN C28_ring :
              i # j => publickey(C28_ring[i]) # publickey(C28_ring[j])
        /\ \E i \in DOMAIN C28_ring : C28_ring[i] = publickey(KeyOf["auctioneer"])
        /\ \A i \in DOMAIN C28_ring :
              /\ publickey(C28_ring[i]) = publickey(KeyOf[last.name])
                    <=> i = participants[last.name].s + 1
              /\ has_private(C28_ring[i]) <=> i = participants[last.name].s + 1
        /\ C28_ring[participants[last.name].s + 1] = KeyOf[last.name]

\* a ring of every key of the list, the bidder's own key not the first
C28_Witness ==
    /\ last.op = "make_ring"
    /\ Len(last.keys) = Cardinality(Names)
    /\ Len(C28_ring) = Len(last.keys)
    /\ participants[last.name].s > 0

-----------------------------------------------------------------------------
(* The walk of sign *)

\* the rotated index sequence s + 1, ..., n - 1, 0, ..., s - 1
C29_rotated == [j \in 1..(Len(ring) - 1) |-> (s + j) % Len(ring)]

\* y[i] = g_i(x[i]) for the fields f of a signature
C29_y(f) ==
    [i \in 0..(Len(ring) - 1) |-> RSA_mult(At(f, i + 1), At(ring, i).e, At(ring, i).n)]

\* the chain value after the indices C29_rotated[from..upto], one after the
\* other, v being the value before the first of them
RECURSIVE C29_walk(_, _, _, _, _)
C29_walk(y, k, v, from, upto) ==
    IF from > upto THEN v
    ELSE C29_walk(y, k, E_k(to_bytes(Xor(v, y[C29_rotated[from]]), sig_size), k),
                  from + 1, upto)

\* the fields f are those of the one walk from E(v_prime, k) over the rotated
\* indices: glue after index n - 1, y[s] = v_prime XOR the value at the end
C29_one_walk(f, y, k, v_prime) ==
    \E first \in {E_k(to_bytes(v_prime, sig_size), k)} :
    \E glue \in {C29_walk(y, k, first, 1, Len(ring) - 1 - s)} :
    \E end \in {C29_walk(y, k, glue, Len(ring) - s, Len(ring) - 1)} :
       /\ f[1] = glue
       /\ y[s] = Xor(v_prime, end)
       /\ s = Len(ring) - 1 => glue = first
       /\ s = 0 => y[s] = Xor(v_prime, glue)

\* the signature held is such a walk for some draw v_prime
C29_is_one_walk ==
    \E f \in {sig_fields(signature)} : \E y \in {C29_y(f)} : \E k \in {sha256(msg)} :
        \E v_prime \in Draws : C29_one_walk(f, y, k, v_prime)

\* C29: the two loops of sign are one walk over s + 1, ..., n - 1, 0, ..., s - 1,
\* every index but s once, with glue the chain value after index n - 1
\* (E(v_prime, k) when s = n - 1) and y[s] = v_prime XOR the value after index
\* s - 1 (glue when s = 0); the walk of verify from glue over 0..n - 1 returns
\* to glue.  Checked on what sign has just returned, before the test goes on.
C29_OneRotatedWalk ==
    (signature # <<>> /\ valid = "none") =>
        /\ C29_is_one_walk
        /\ \E f \in {sig_fields(signature)} :
              verify_walk(ring, f, sha256(msg), f[1], 0) = f[1]

\* both loops of sign ran: the signer is in the middle of the largest ring
C29_Witness ==
    /\ signature # <<>> /\ valid = "none"
    /\ Len(ring) = MaxRing /\ s > 0 /\ s < Len(ring) - 1
    /\ C29_is_one_walk

-----------------------------------------------------------------------------
(* The private exponent in sign *)

\* the ring with every entry but the signer's reduced to its public key
C30_public_but_s ==
    [i \in DOMAIN ring |-> IF i - 1 = s THEN ring[i] ELSE publickey(ring[i])]

\* the signature held is what sign returns on C30_public_but_s with the draw
\* v_prime and the x[i] the signature carries
C30_same(v_prime) ==
    signature = sign(C30_public_but_s, s, msg, v_prime,
                     [i \in 0..(Len(ring) - 1) |->
                        IF i = s THEN 0 ELSE At(sig_fields(signature), i + 1)])

\* C30: sign reads a private exponent at index s only: it returns a signature
\* whenever ring[s] is a key pair, the same whether the other entries are
\* public keys or key pairs, and raises when ring[s] has no private exponent
C30_PrivateOnlyAtS ==
    /\ ~has_private(At(ring, s)) => signature = <<>>
    /\ valid = "AttributeError" <=> (signature = <<>> /\ valid # "none")
    /\ has_private(At(ring, s)) => valid # "AttributeError"
    /\ (signature # <<>> /\ valid = "none") => \E v_prime \in Draws : C30_same(v_prime)

\* sign raised on a ring whose only public-only entry is the signer's
C30_Witness ==
    /\ valid = "AttributeError"
    /\ Len(ring) = MaxRing
    /\ \A i \in DOMAIN ring : has_private(ring[i]) <=> i - 1 # s

-----------------------------------------------------------------------------
(* The bytes commit hashes *)

\* the openings (m, r) commit accepts, over the messages and nonces explored
C31_accepted ==
    {op \in (UNION {[1..n -> 0..MaxByte] : n \in 0..MaxPlain})
              \X (UNION {[1..n -> 0..MaxByte] : n \in 0..(HashLen + 1)}) :
        ~commit_raises(op[2])}

\* C31: two openings commit accepts that differ, in the message or in the
\* nonce, give different byte strings msg + r to the hash: no opening can be
\* split again into another message and another nonce
C31_EncodingBinds ==
    (last.op = "commit" /\ last.raised = "none") =>
        \A op \in C31_accepted :
            op # <<msg, last.r>> => op[1] \o op[2] # msg \o last.r

-----------------------------------------------------------------------------
(* identity_opening with no winning commitment *)

\* C32: identity_opening called while winning_com is None, before
\* get_winning_commitment or after a tally that selected nothing, returns False
\* whatever sig and tau_2 are, and winning_bidder stays unset
C32_NoWinnerNoIdentity ==
    winning_com = None =>
        /\ winning_bidder = NoKey
        /\ last.op = "identity_opening" => last.status = "False"

-----------------------------------------------------------------------------
(* The winning commitment and the entries removed *)

\* C33: after a call of get_winning_commitment, whatever openings, removals and
\* earlier calls came before it, winning_com is None or the commitment of an
\* entry the tally holds at the time of the call: never that of an entry
\* removed before the call
C33_WinnerInTally ==
    last.op = "get_winning_commitment" =>
        \/ winning_com = None
        \/ \E i \in DOMAIN bidders : bidders[i].com = winning_com

-----------------------------------------------------------------------------
(* The list handed to set_ring *)

\* C34: set_ring(keys) leaves the caller's list as it was: after the call the
\* list still holds public keys only, so no participant the same list was given
\* to holds the private exponent of another participant in its ring
C34_CallerListUnaltered ==
    last.op = "set_ring" =>
        /\ \A i \in DOMAIN ring : ~has_private(ring[i])
        /\ \A b \in Bidders : participants[b]._ring = "keys" =>
              \A i \in DOMAIN ring :
                  has_private(ring[i]) => ring[i] = KeyOf[b]

====
